---- MODULE Spec2Model ----
(***************************************************************************)
(* A model of scripts/documentation/tsdoc.ts, the TypeScript documentation *)
(* generator: extraction, per-module transformation, grouping by README    *)
(* directory, sorting, rendering and the sentinel-region replacement.      *)
(*                                                                         *)
(* A JavaScript string is a sequence of one-character strings.  In README  *)
(* and fragment texts the two sentinel comments are single symbols, START  *)
(* and END: neither literal overlaps itself or contains a line terminator  *)
(* or a regular-expression metacharacter, so nothing is lost.              *)
(***************************************************************************)
EXTENDS Integers, Sequences, FiniteSets, TLC

VARIABLES
    \* ---- the generator run (specification Spec) ----
    templateFunction,   \* this.templateFunction: "unset" or "compiled"
    templateCb,         \* the constructor's fs.readFile callback: "pending" / "done"
    extract,            \* the Documentalist promise: "pending" / "resolved" / "failed"
    sources,            \* what the extraction engine yields for packages/**/*
    docData,            \* this.docData (a sequence: Object.keys order)
    files,              \* README.md text of every directory that has one
    markdownBuffer,     \* this.markdownBuffer, keys in insertion order
    gen,                \* generateMarkdownFileFromBuffer: [pc, idx]
    writes,             \* fs.writeFile calls initiated: [dir, data, state]
    readLog,            \* directories whose README was handed to readFile
    failedReads,        \* directories whose README read failed
    templateCalls,      \* value of templateFunction at each invocation
    logged,             \* what the script itself printed with console.error
    crashed,            \* an uncaught exception or rejection ended the process
    \* ---- the comparator and the sort (specification SortSpec) ----
    sortGroup, sortEngine, sortResult, sortPc,
    \* ---- the sentinel replacement (specification ReplaceSpec) ----
    readmeMd, fragment, readmeFile, replaced,
    \* ---- directory resolution (specification PathSpec) ----
    filePath, readmeDirs, resolved, pathPc,
    \* ---- per-module transformation (specification TransformSpec) ----
    rawModule, moduleRecord, transformPc

pipeVars == <<templateFunction, templateCb, extract, sources, docData, files,
              markdownBuffer, gen, writes, readLog, failedReads, templateCalls,
              logged, crashed>>
sortVars == <<sortGroup, sortEngine, sortResult, sortPc>>
replaceVars == <<readmeMd, fragment, readmeFile, replaced>>
pathVars == <<filePath, readmeDirs, resolved, pathPc>>
transformVars == <<rawModule, moduleRecord, transformPc>>
vars == <<pipeVars, sortVars, replaceVars, pathVars, transformVars>>

-----------------------------------------------------------------------------
(* Bounds of the model *)

MaxGroup == 4
MaxReadmeLen == 5
MaxFragmentLen == 2
MaxSegments == 3
MaxReadmes == 2
MaxMethods == 2
MaxProperties == 1
MaxModules == 2
MaxPasses == 2
StackLimit == 8

-----------------------------------------------------------------------------
(* JavaScript strings *)

Upper == <<"A","B","C","D","E","F","G","H","I","J","K","L","M",
           "N","O","P","Q","R","S","T","U","V","W","X","Y","Z">>
Lower == <<"a","b","c","d","e","f","g","h","i","j","k","l","m",
           "n","o","p","q","r","s","t","u","v","w","x","y","z">>

PositionIn(c, alphabet) ==
    IF \E i \in DOMAIN alphabet : alphabet[i] = c
    THEN CHOOSE i \in DOMAIN alphabet : alphabet[i] = c
    ELSE 0

\* The UTF-16 code unit of a character ('$' 36, '&' 38, '-' 45, '.' 46, '/' 47).
CharCode(c) ==
    IF PositionIn(c, Upper) > 0 THEN 64 + PositionIn(c, Upper)
    ELSE IF PositionIn(c, Lower) > 0 THEN 96 + PositionIn(c, Lower)
    ELSE IF c = "$" THEN 36
    ELSE IF c = "&" THEN 38
    ELSE IF c = "-" THEN 45
    ELSE IF c = "." THEN 46
    ELSE 47

\* String.prototype.toLowerCase
ToLowerCase(s) ==
    [i \in DOMAIN s |->
        IF PositionIn(s[i], Upper) > 0 THEN Lower[PositionIn(s[i], Upper)] ELSE s[i]]

\* String.prototype.indexOf / lastIndexOf: 0-based, -1 when absent
Occurrences(s, pat) ==
    {i \in 0..(Len(s) - Len(pat)) : SubSeq(s, i + 1, i + Len(pat)) = pat}

IndexOf(s, pat) ==
    IF Occurrences(s, pat) = {} THEN -1
    ELSE CHOOSE i \in Occurrences(s, pat) : \A j \in Occurrences(s, pat) : i <= j

LastIndexOf(s, pat) ==
    IF Occurrences(s, pat) = {} THEN -1
    ELSE CHOOSE i \in Occurrences(s, pat) : \A j \in Occurrences(s, pat) : i >= j

\* String.prototype.includes
Includes(s, pat) == IndexOf(s, pat) >= 0

Clamp(i, n) == IF i < 0 THEN 0 ELSE IF i > n THEN n ELSE i

\* String.prototype.substring: both indices clamped to [0, length], swapped
\* when start > end.
Substring(s, start, end) ==
    LET a == Clamp(start, Len(s))
        b == Clamp(end, Len(s))
    IN  IF a <= b THEN SubSeq(s, a + 1, b) ELSE SubSeq(s, b + 1, a)

\* a > b on strings: code-unit lexicographic order
RECURSIVE StrGreater(_, _)
StrGreater(a, b) ==
    IF a = <<>> THEN FALSE
    ELSE IF b = <<>> THEN TRUE
    ELSE IF CharCode(Head(a)) # CharCode(Head(b))
         THEN CharCode(Head(a)) > CharCode(Head(b))
         ELSE StrGreater(Tail(a), Tail(b))

FOUNDATION == <<"f","o","u","n","d","a","t","i","o","n">>
ADAPTER == <<"a","d","a","p","t","e","r">>

-----------------------------------------------------------------------------
(* sortByModuleType and Array.prototype.sort *)

sortByModuleType(a, b) ==
    LET moduleA == ToLowerCase(a.moduleName)
        moduleB == ToLowerCase(b.moduleName)
    IN  IF ~Includes(moduleA, FOUNDATION) /\ ~Includes(moduleA, ADAPTER) THEN -1
        ELSE IF Includes(moduleA, FOUNDATION) /\ ~Includes(moduleB, FOUNDATION) THEN 1
        ELSE IF \/ Includes(moduleA, FOUNDATION) /\ Includes(moduleB, FOUNDATION)
                \/ Includes(moduleA, ADAPTER) /\ Includes(moduleB, ADAPTER)
             THEN (IF StrGreater(moduleA, moduleB) THEN 1 ELSE -1)
        ELSE 0

Reverse(s) == [i \in DOMAIN s |-> s[Len(s) + 1 - i]]

\* V8 before 7.0 (Node <= 10), arrays of at most 10 elements: InsertionSort.
\* The element moves left past every predecessor that compares > 0 with it.
RECURSIVE LegacyInsert(_, _)
LegacyInsert(prefix, element) ==
    IF prefix = <<>> THEN <<element>>
    ELSE IF sortByModuleType(prefix[Len(prefix)], element) > 0
         THEN Append(LegacyInsert(SubSeq(prefix, 1, Len(prefix) - 1), element),
                     prefix[Len(prefix)])
         ELSE Append(prefix, element)

RECURSIVE LegacyInsertionSort(_, _)
LegacyInsertionSort(s, i) ==
    IF i > Len(s) THEN s
    ELSE LegacyInsertionSort(
            LegacyInsert(SubSeq(s, 1, i - 1), s[i]) \o SubSeq(s, i + 1, Len(s)),
            i + 1)

\* V8 from 7.0 (Node >= 11), arrays shorter than 64 elements: TimSort with
\* one run, CountAndMakeRun followed by BinaryInsertionSort.
RECURSIVE RunLength(_, _, _)
RunLength(s, idx, isDescending) ==
    IF idx > Len(s) THEN idx - 1
    ELSE LET order == sortByModuleType(s[idx], s[idx - 1])
         IN  IF (isDescending /\ order >= 0) \/ (~isDescending /\ order < 0)
             THEN idx - 1
             ELSE RunLength(s, idx + 1, isDescending)

\* The 0-based slot of the pivot among s[0 .. right): binary search.
RECURSIVE BinarySlot(_, _, _, _)
BinarySlot(s, pivot, left, right) ==
    IF left >= right THEN left
    ELSE LET mid == left + ((right - left) \div 2)
         IN  IF sortByModuleType(pivot, s[mid + 1]) < 0
             THEN BinarySlot(s, pivot, left, mid)
             ELSE BinarySlot(s, pivot, mid + 1, right)

RECURSIVE BinaryInsertionSort(_, _)
BinaryInsertionSort(s, start) ==
    IF start > Len(s) THEN s
    ELSE LET pivot == s[start]
             left == BinarySlot(s, pivot, 0, start - 1)
         IN  BinaryInsertionSort(
                SubSeq(s, 1, left) \o <<pivot>> \o SubSeq(s, left + 1, start - 1)
                    \o SubSeq(s, start + 1, Len(s)),
                start + 1)

TimSort(s) ==
    IF Len(s) < 2 THEN s
    ELSE LET isDescending == sortByModuleType(s[2], s[1]) < 0
             run == RunLength(s, 3, isDescending)
             made == IF isDescending
                     THEN Reverse(SubSeq(s, 1, run)) \o SubSeq(s, run + 1, Len(s))
                     ELSE s
         IN  BinaryInsertionSort(made, run + 1)

Engines == {"legacy", "timsort"}

\* Array.prototype.sort(this.sortByModuleType): the order an inconsistent
\* comparator gives is implementation-defined, so the engine is a parameter.
ArraySort(s, engine) ==
    IF engine = "legacy" THEN LegacyInsertionSort(s, 2) ELSE TimSort(s)

NonEmptyRecord(module) ==
    Len(module.methods) # 0 \/ Len(module.properties) # 0 \/ Len(module.events) # 0

\* insertMethodDescriptionTable, the list handed to the template
ModulesForTemplate(group, engine) ==
    ArraySort(SelectSeq(group, NonEmptyRecord), engine)

-----------------------------------------------------------------------------
(* The sentinel-region replacement of insertMethodDescriptionTable *)

START == "START"    \* startReplacerToken
END == "END"        \* endReplacerToken
LF == "LF"
CR == "CR"

\* What ^ and $ treat as a line break under the m flag, and what . refuses.
LineTerminators == {LF, CR}

\* Positions are 0-based, as in JavaScript; t[i + 1] is the character at i.
AtLineStart(t, i) == i = 0 \/ t[i] \in LineTerminators
AtLineEnd(t, i) == i = Len(t) \/ t[i + 1] \in LineTerminators

\* Where a match that starts at i may end: the positions of an END that ends
\* a line, with nothing but what (.|\n) accepts between the start line and it.
MatchEnds(t, i) ==
    {j \in (i + 2)..(Len(t) - 1) :
        /\ t[j + 1] = END
        /\ AtLineEnd(t, j + 1)
        /\ \A k \in (i + 2)..(j - 1) : t[k + 1] = LF \/ t[k + 1] \notin LineTerminators}

\* A variant in which (.|\n)* gives up at the first END it can.
MatchEndLazy(t, i) ==
    CHOOSE j \in MatchEnds(t, i) : \A k \in MatchEnds(t, i) : j <= k

\* (.|\n)* is greedy: the match runs to the last such END.
MatchEnd(t, i) ==
    CHOOSE j \in MatchEnds(t, i) : \A k \in MatchEnds(t, i) : j >= k

MatchAt(t, i) ==
    /\ AtLineStart(t, i)
    /\ i + 1 < Len(t)
    /\ t[i + 1] = START
    /\ t[i + 2] = LF
    /\ MatchEnds(t, i) # {}

MatchStarts(t, from) == {i \in from..Len(t) : MatchAt(t, i)}

\* GetSubstitution: the $-patterns of a replacement string.  The pattern has
\* one capture group, whose value is the last character (.|\n) consumed.
RECURSIVE GetSubstitution(_, _, _, _, _)
GetSubstitution(r, matched, before, after, capture) ==
    IF r = <<>> THEN <<>>
    ELSE IF r[1] = "$" /\ Len(r) >= 2 /\ r[2] = "$"
         THEN <<"$">> \o GetSubstitution(SubSeq(r, 3, Len(r)), matched, before, after, capture)
    ELSE IF r[1] = "$" /\ Len(r) >= 2 /\ r[2] = "&"
         THEN matched \o GetSubstitution(SubSeq(r, 3, Len(r)), matched, before, after, capture)
    ELSE IF r[1] = "$" /\ Len(r) >= 2 /\ r[2] = "`"
         THEN before \o GetSubstitution(SubSeq(r, 3, Len(r)), matched, before, after, capture)
    ELSE IF r[1] = "$" /\ Len(r) >= 2 /\ r[2] = "'"
         THEN after \o GetSubstitution(SubSeq(r, 3, Len(r)), matched, before, after, capture)
    ELSE IF r[1] = "$" /\ Len(r) >= 2 /\ r[2] = "1"
         THEN capture \o GetSubstitution(SubSeq(r, 3, Len(r)), matched, before, after, capture)
    ELSE IF r[1] = "$" /\ Len(r) >= 3 /\ r[2] = "0" /\ r[3] = "1"
         THEN capture \o GetSubstitution(SubSeq(r, 4, Len(r)), matched, before, after, capture)
    ELSE <<r[1]>> \o GetSubstitution(SubSeq(r, 2, Len(r)), matched, before, after, capture)

\* String.prototype.replace(regex, replacement) with the g flag, from `from`.
RECURSIVE StringReplace(_, _, _)
StringReplace(t, replacement, from) ==
    IF MatchStarts(t, from) = {} THEN SubSeq(t, from + 1, Len(t))
    ELSE LET i == CHOOSE s \in MatchStarts(t, from) :
                        \A s2 \in MatchStarts(t, from) : s <= s2
             j == MatchEnd(t, i)
             capture == IF j > i + 2 THEN <<t[j]>> ELSE <<>>
         IN  SubSeq(t, from + 1, i)
                \o GetSubstitution(replacement, SubSeq(t, i + 1, j + 1),
                                   SubSeq(t, 1, i), SubSeq(t, j + 2, Len(t)), capture)
                \o StringReplace(t, replacement, j + 1)

\* insertedData of insertMethodDescriptionTable
InsertedData(readme, apiMarkdownTable) ==
    StringReplace(readme, <<START, LF>> \o apiMarkdownTable \o <<LF, END>>, 0)

-----------------------------------------------------------------------------
(* Directory resolution: getFilePathName *)

MdcPrefix == <<"/","m","d","c","-">>
Slash == <<"/">>
Packages == <<"p","a","c","k","a","g","e","s">>
MdcDrawer == <<"m","d","c","-","d","r","a","w","e","r">>
MdcTab == <<"m","d","c","-","t","a","b">>
Util == <<"u","t","i","l">>
Segments == {MdcDrawer, MdcTab, Util}
FileNames == {<<"f",".","t","s">>, <<"m","d","c","-","f",".","t","s">>}

RECURSIVE Join(_)
Join(segs) ==
    IF segs = <<>> THEN <<>>
    ELSE IF Len(segs) = 1 THEN segs[1]
    ELSE segs[1] \o Slash \o Join(Tail(segs))

\* fs.existsSync(path.resolve('packages', directoryPath, README_FILE)).  dirs
\* are the directories below ./packages that hold a README.md ('' is
\* ./packages itself); an absolute directoryPath makes path.resolve drop
\* 'packages', and no README.md is taken to exist up there.
ReadmeExists(dirs, directoryPath) ==
    /\ ~(directoryPath # <<>> /\ directoryPath[1] = "/")
    /\ directoryPath \in dirs

\* depth counts the frames of the recursion.  The call that no longer fits
\* the stack throws a RangeError inside the try of its caller, whose catch
\* logs it and falls through to return ''; every frame above returns that.
RECURSIVE getFilePathName(_, _, _)
getFilePathName(path, dirs, depth) ==
    LET startingIndex == IndexOf(path, MdcPrefix) + 1
        endIndex == LastIndexOf(path, Slash)
        directoryPath == Substring(path, startingIndex, endIndex)
    IN  IF depth > StackLimit THEN <<>>
        ELSE IF ReadmeExists(dirs, directoryPath) THEN directoryPath
        ELSE getFilePathName(directoryPath, dirs, depth + 1)

-----------------------------------------------------------------------------
(* The Transformer: generateDocsForModule and what it calls *)

\* A variant that forgets the static flag.
shouldIgnoreDocumentationItemNoStatic(item, hasDocumentation) ==
    ~item.isProtected /\ hasDocumentation

\* Despite its name the result is the filter's keep-predicate.
shouldIgnoreDocumentationItem(item, hasDocumentation) ==
    ~item.isProtected /\ ~item.isStatic /\ hasDocumentation

cleanComment(comment) ==
    [i \in DOMAIN comment |-> IF comment[i] = LF THEN " " ELSE comment[i]]

getDocumentationForEvents(raw) ==
    LET kept == SelectSeq(raw.documentation.contents, LAMBDA c : c.tag = "events")
    IN  [i \in DOMAIN kept |-> [documentation |-> kept[i].value]]

getDocumentationForModule(raw) ==
    IF ~raw.documentation.present THEN <<>> ELSE getDocumentationForEvents(raw)

getDocumentationForMethods(raw) ==
    IF ~raw.methods.present THEN <<>>
    ELSE LET kept == SelectSeq(raw.methods.items,
                        LAMBDA m : shouldIgnoreDocumentationItem(m, m.documented))
         IN  [i \in DOMAIN kept |->
                [documentation |-> cleanComment(kept[i].contentsRaw),
                 methodSignature |-> kept[i].name \o kept[i].type]]

getDocumentationProperties(raw) ==
    IF ~raw.properties.present THEN <<>>
    ELSE LET kept == SelectSeq(raw.properties.items,
                        LAMBDA m : shouldIgnoreDocumentationItem(m, m.documented))
         IN  [i \in DOMAIN kept |->
                [documentation |-> cleanComment(kept[i].contentsRaw),
                 name |-> kept[i].name,
                 type |-> kept[i].type]]

\* The records generateDocsForModule hands to addToMarkdownBuffer: none for
\* a type alias, one otherwise.
generateDocsForModule(raw, dirs) ==
    LET readmeDirectoryPath == getFilePathName(raw.fileName, dirs, 1)
    IN  IF raw.kind = "type alias" THEN <<>>
        ELSE <<[events |-> getDocumentationForModule(raw),
                methods |-> getDocumentationForMethods(raw),
                moduleName |-> raw.name,
                properties |-> getDocumentationProperties(raw),
                readmeDirectoryPath |-> readmeDirectoryPath]>>

\* The Aggregator.  The buffer is a sequence of [key, modules]: a JavaScript
\* object enumerates its string keys in insertion order.
addToMarkdownBuffer(buffer, readmeDirectoryPath, moduleMarkdown) ==
    IF \E i \in DOMAIN buffer : buffer[i].key = readmeDirectoryPath
    THEN [i \in DOMAIN buffer |->
            IF buffer[i].key = readmeDirectoryPath
            THEN [buffer[i] EXCEPT !.modules = Append(@, moduleMarkdown)]
            ELSE buffer[i]]
    ELSE Append(buffer, [key |-> readmeDirectoryPath, modules |-> <<moduleMarkdown>>])

\* generateDocs, the forEach over Object.keys(this.docData)
RECURSIVE generateDocsBuffer(_, _, _)
generateDocsBuffer(data, dirs, buffer) ==
    IF data = <<>> THEN buffer
    ELSE LET made == generateDocsForModule(Head(data), dirs)
         IN  generateDocsBuffer(Tail(data), dirs,
                IF made = <<>> THEN buffer
                ELSE addToMarkdownBuffer(buffer, made[1].readmeDirectoryPath, made[1]))

-----------------------------------------------------------------------------
(* Input sets *)

Range(s) == {s[i] : i \in DOMAIN s}

\* The sequences over S of length at most n
RECURSIVE SeqsUpTo(_, _)
SeqsUpTo(S, n) ==
    IF n = 0 THEN {<<>>}
    ELSE LET shorter == SeqsUpTo(S, n - 1)
         IN  shorter \cup {Append(s, x) : s \in {q \in shorter : Len(q) = n - 1}, x \in S}

\* The subsets of S of at most n elements
RECURSIVE SubsetsUpTo(_, _)
SubsetsUpTo(S, n) ==
    IF n = 0 THEN {{}}
    ELSE LET smaller == SubsetsUpTo(S, n - 1)
         IN  smaller \cup {s \cup {x} : s \in smaller, x \in S}

Foo == <<"F","o","o">>
Bar == <<"B","a","r">>
FooAdapter == <<"F","o","o","A","d","a","p","t","e","r">>
BarAdapter == <<"B","a","r","A","d","a","p","t","e","r">>
FooFoundation == <<"F","o","o","F","o","u","n","d","a","t","i","o","n">>
BarFoundation == <<"B","a","r","F","o","u","n","d","a","t","i","o","n">>
ModuleNames == {Foo, Bar, FooAdapter, BarAdapter, FooFoundation, BarFoundation}

MemberNames == <<<<"a">>, <<"b">>, <<"c">>, <<"d">>>>
RawDocumentation == <<"d", LF, "d">>

\* The i-th member of a class, with every combination of the flags
Members(i, type) ==
    {[name |-> MemberNames[i], isProtected |-> p, isStatic |-> s, documented |-> d,
      type |-> type, contentsRaw |-> RawDocumentation] : p, s, d \in BOOLEAN}

RECURSIVE MemberSeqs(_, _)
MemberSeqs(n, type) ==
    IF n = 0 THEN {<<>>}
    ELSE LET shorter == MemberSeqs(n - 1, type)
         IN  shorter \cup {Append(s, m) : s \in {q \in shorter : Len(q) = n - 1},
                                          m \in Members(n, type)}

\* The methods (or properties) entry of a raw record: absent, or a list
MemberLists(n, type) ==
    {[present |-> FALSE, items |-> <<>>]}
        \cup {[present |-> TRUE, items |-> s] : s \in MemberSeqs(n, type)}

OneMethod ==
    [name |-> MemberNames[1], isProtected |-> FALSE, isStatic |-> FALSE,
     documented |-> TRUE, type |-> <<"(", ")">>, contentsRaw |-> RawDocumentation]

NoDocumentation == [present |-> FALSE, contents |-> <<>>]
EventDocumentation ==
    [present |-> TRUE,
     contents |-> <<[tag |-> "other", value |-> <<"o">>], [tag |-> "events", value |-> <<"e">>]>>]

FilePathOf(segs, fileName) ==
    Packages \o Slash \o (IF segs = <<>> THEN <<>> ELSE Join(segs) \o Slash) \o fileName

FilePaths == {FilePathOf(segs, fn) : segs \in SeqsUpTo(Segments, MaxSegments), fn \in FileNames}
Directories == {Join(segs) : segs \in SeqsUpTo(Segments, MaxSegments)}

ReadmeAlphabet == {START, END, LF, CR, "x"}
FragmentAlphabet == {"$", "&"}

-----------------------------------------------------------------------------
(* Each specification runs one part of the program; the variables of the   *)
(* other parts rest at these values.                                       *)

PipeIdle ==
    /\ templateFunction = "unset" /\ templateCb = "done" /\ extract = "failed"
    /\ sources = <<>> /\ docData = <<>> /\ files = <<>> /\ markdownBuffer = <<>>
    /\ gen = [pc |-> "notStarted", idx |-> 0] /\ writes = <<>> /\ readLog = {}
    /\ failedReads = {} /\ templateCalls = <<>> /\ logged = {} /\ crashed = FALSE
SortIdle == sortGroup = <<>> /\ sortEngine = "timsort" /\ sortResult = <<>> /\ sortPc = "idle"
ReplaceIdle == readmeMd = <<>> /\ fragment = <<>> /\ readmeFile = <<>> /\ replaced = <<>>
PathIdle == filePath = <<>> /\ readmeDirs = {} /\ resolved = <<>> /\ pathPc = "idle"
TransformIdle == rawModule = <<>> /\ moduleRecord = <<>> /\ transformPc = "idle"

-----------------------------------------------------------------------------
(* SortSpec: the Renderer's filter and sort of one directory group *)

GroupRecord(name, methods) ==
    [events |-> <<>>, methods |-> methods, moduleName |-> name, properties |-> <<>>]

\* The groups of at most n modules with distinct names
RECURSIVE Groups(_)
Groups(n) ==
    IF n = 0 THEN {<<>>}
    ELSE LET shorter == Groups(n - 1)
         IN  shorter \cup UNION {
                {Append(g, GroupRecord(name, ms)) :
                    name \in ModuleNames \ {g[i].moduleName : i \in DOMAIN g},
                    ms \in {<<>>, <<[methodSignature |-> <<"a">>, documentation |-> <<"d">>]>>}}
                : g \in {q \in shorter : Len(q) = n - 1}}

SortInit ==
    /\ sortGroup \in Groups(MaxGroup)
    /\ sortEngine \in Engines
    /\ sortResult = <<>>
    /\ sortPc = "group"
    /\ PipeIdle /\ ReplaceIdle /\ PathIdle /\ TransformIdle

\* insertMethodDescriptionTable, lines 267-269
FilterAndSort ==
    /\ sortPc = "group"
    /\ sortResult' = ModulesForTemplate(sortGroup, sortEngine)
    /\ sortPc' = "sorted"
    /\ UNCHANGED <<sortGroup, sortEngine, pipeVars, replaceVars, pathVars, transformVars>>

SortNext == FilterAndSort
SortSpec == SortInit /\ [][SortNext]_vars

-----------------------------------------------------------------------------
(* ReplaceSpec: the Writer run again and again on one README *)

ReplaceInit ==
    /\ readmeMd \in SeqsUpTo(ReadmeAlphabet, MaxReadmeLen)
    /\ fragment \in SeqsUpTo(FragmentAlphabet, MaxFragmentLen)
    /\ readmeFile = readmeMd
    /\ replaced = <<>>
    /\ PipeIdle /\ SortIdle /\ PathIdle /\ TransformIdle

\* One run of the Writer: the README is read, the region replaced, the file
\* written back.
WriterPass ==
    /\ Len(replaced) < MaxPasses
    /\ readmeFile' = InsertedData(readmeFile, fragment)
    /\ replaced' = Append(replaced, readmeFile')
    /\ UNCHANGED <<readmeMd, fragment, pipeVars, sortVars, pathVars, transformVars>>

ReplaceNext == WriterPass
ReplaceSpec == ReplaceInit /\ [][ReplaceNext]_vars

-----------------------------------------------------------------------------
(* PathSpec: directory resolution of one source file *)

PathInit ==
    /\ filePath \in FilePaths
    /\ readmeDirs \in SubsetsUpTo(Directories, MaxReadmes)
    /\ resolved = <<>>
    /\ pathPc = "call"
    /\ PipeIdle /\ SortIdle /\ ReplaceIdle /\ TransformIdle

ResolveDirectory ==
    /\ pathPc = "call"
    /\ resolved' = getFilePathName(filePath, readmeDirs, 1)
    /\ pathPc' = "returned"
    /\ UNCHANGED <<filePath, readmeDirs, pipeVars, sortVars, replaceVars, transformVars>>

PathNext == ResolveDirectory
PathSpec == PathInit /\ [][PathNext]_vars

-----------------------------------------------------------------------------
(* TransformSpec: generateDocsForModule on one raw record *)

RawModules ==
    {[name |-> Foo, kind |-> k, fileName |-> FilePathOf(<<MdcDrawer>>, <<"f", ".", "t", "s">>),
      methods |-> ms, properties |-> ps, documentation |-> doc] :
        k \in {"class", "type alias"},
        ms \in MemberLists(MaxMethods, <<"(", ")">>),
        ps \in MemberLists(MaxProperties, <<"T">>),
        doc \in {NoDocumentation, EventDocumentation}}

TransformInit ==
    /\ rawModule \in RawModules
    /\ moduleRecord = <<>>
    /\ transformPc = "raw"
    /\ filePath = <<>> /\ readmeDirs = {MdcDrawer} /\ resolved = <<>> /\ pathPc = "idle"
    /\ PipeIdle /\ SortIdle /\ ReplaceIdle

Transform ==
    /\ transformPc = "raw"
    /\ moduleRecord' = generateDocsForModule(rawModule, readmeDirs)
    /\ transformPc' = "done"
    /\ UNCHANGED <<rawModule, pipeVars, sortVars, replaceVars, pathVars>>

TransformNext == Transform
TransformSpec == TransformInit /\ [][TransformNext]_vars

-----------------------------------------------------------------------------
(* Spec: one run of the script, lines 330-332 *)

MdcDrawerUtil == Join(<<MdcDrawer, Util>>)
PlainFile == <<"f", ".", "t", "s">>

\* The source files of the run and the directories that may hold a README
SourceFiles ==
    {FilePathOf(<<MdcDrawer>>, PlainFile), FilePathOf(<<MdcDrawer, Util>>, PlainFile),
     FilePathOf(<<MdcTab>>, PlainFile)}
ReadmeDirectories == {MdcDrawer, MdcDrawerUtil, MdcTab}
SourceNames == {Foo, FooAdapter, FooFoundation}

InitialReadme == <<"x", LF, START, LF, "x", LF, END, LF>>

\* A raw record as the extraction engine yields it: a class with one
\* documented public method, a class with nothing to document, a type alias.
RawModule(name, fileName, content) ==
    [name |-> name,
     kind |-> IF content = "alias" THEN "type alias" ELSE "class",
     fileName |-> fileName,
     methods |-> IF content = "documented"
                 THEN [present |-> TRUE, items |-> <<OneMethod>>]
                 ELSE [present |-> FALSE, items |-> <<>>],
     properties |-> [present |-> FALSE, items |-> <<>>],
     documentation |-> NoDocumentation]

RECURSIVE SourceSets(_)
SourceSets(n) ==
    IF n = 0 THEN {<<>>}
    ELSE LET shorter == SourceSets(n - 1)
         IN  shorter \cup UNION {
                {Append(s, RawModule(name, file, content)) :
                    name \in SourceNames \ {s[i].name : i \in DOMAIN s},
                    file \in SourceFiles,
                    content \in {"documented", "empty", "alias"}}
                : s \in {q \in shorter : Len(q) = n - 1}}

\* The allow-list of generateMarkdownFileFromBuffer
allowList == {MdcDrawer}

\* A variant that asks for the key to be an allow-listed name itself.
AllowListedExactly(readmeDirectoryPath) ==
    \E allowed \in allowList : readmeDirectoryPath = allowed

\* allowList.some((allowed) => readmeDirectoryPath.includes(allowed))
AllowListed(readmeDirectoryPath) ==
    \E allowed \in allowList : Includes(readmeDirectoryPath, allowed)

\* The for-in loop from its from-th key on: it runs to the next allow-listed
\* key, where insertMethodDescriptionTable starts readFile and the function
\* is suspended, or to the end of the buffer.
LoopFrom(buffer, from) ==
    LET next == {i \in from..Len(buffer) : AllowListed(buffer[i].key)}
    IN  IF next = {} THEN [pc |-> "done", idx |-> Len(buffer) + 1]
        ELSE [pc |-> "awaitRead", idx |-> CHOOSE i \in next : \A k \in next : i <= k]

ReadStarted(g, buffer) == IF g.pc = "awaitRead" THEN {buffer[g.idx].key} ELSE {}

\* What the template makes of the sorted modules: per module a line with its
\* name and the signature and documentation of each of its methods.
RECURSIVE RenderTemplate(_)
RenderTemplate(modules) ==
    IF modules = <<>> THEN <<>>
    ELSE LET m == Head(modules)
             line == m.moduleName
                        \o (IF m.methods = <<>> THEN <<>>
                            ELSE <<" ">> \o m.methods[1].methodSignature
                                    \o <<" ">> \o m.methods[1].documentation)
         IN  line \o (IF Tail(modules) = <<>> THEN <<>> ELSE <<LF>>)
                \o RenderTemplate(Tail(modules))

Init ==
    /\ templateFunction = "unset"
    /\ templateCb = "pending"
    /\ extract = "pending"
    /\ sources \in SourceSets(MaxModules)
    /\ docData = <<>>
    /\ \E dirs \in SUBSET ReadmeDirectories : files = [d \in dirs |-> InitialReadme]
    /\ markdownBuffer = <<>>
    /\ gen = [pc |-> "notStarted", idx |-> 0]
    /\ writes = <<>>
    /\ readLog = {}
    /\ failedReads = {}
    /\ templateCalls = <<>>
    /\ logged = {}
    /\ crashed = FALSE
    /\ SortIdle /\ ReplaceIdle /\ PathIdle /\ TransformIdle

\* The constructor's fs.readFile callback, lines 52-57.  With an error the
\* template is undefined and Handlebars.compile throws on it: the exception
\* leaves the callback uncaught and ends the process.
TemplateLoaded ==
    /\ ~crashed
    /\ templateCb = "pending"
    /\ templateCb' = "done"
    /\ \E error \in BOOLEAN :
          IF error
          THEN /\ logged' = logged \cup {"template"}
               /\ crashed' = TRUE
               /\ UNCHANGED templateFunction
          ELSE /\ templateFunction' = "compiled"
               /\ UNCHANGED <<logged, crashed>>
    /\ UNCHANGED <<extract, sources, docData, files, markdownBuffer, gen, writes,
                   readLog, failedReads, templateCalls>>
    /\ UNCHANGED <<sortVars, replaceVars, pathVars, transformVars>>

\* A variant whose catch also resolves the promise with what was extracted.
ExtractionFailedResolves ==
    /\ ~crashed
    /\ extract = "pending"
    /\ extract' = "failed"
    /\ logged' = logged \cup {"extraction"}
    /\ docData' = sources
    /\ markdownBuffer' = generateDocsBuffer(sources, DOMAIN files, <<>>)
    /\ gen' = LoopFrom(markdownBuffer', 1)
    /\ readLog' = readLog \cup ReadStarted(gen', markdownBuffer')
    /\ UNCHANGED <<templateFunction, templateCb, sources, files, writes, failedReads,
                   templateCalls, crashed>>
    /\ UNCHANGED <<sortVars, replaceVars, pathVars, transformVars>>

\* documentGlobs rejects, line 74: the error is logged and the promise of
\* generateJSONFromFiles is never resolved.
ExtractionFailed ==
    /\ ~crashed
    /\ extract = "pending"
    /\ extract' = "failed"
    /\ logged' = logged \cup {"extraction"}
    /\ UNCHANGED <<templateFunction, templateCb, sources, docData, files, markdownBuffer,
                   gen, writes, readLog, failedReads, templateCalls, crashed>>
    /\ UNCHANGED <<sortVars, replaceVars, pathVars, transformVars>>

\* documentGlobs resolves, lines 73 and 332: generateDocs transforms every
\* module, fills the buffer and calls generateMarkdownFileFromBuffer, which
\* runs to its first await.
ExtractionResolved ==
    /\ ~crashed
    /\ extract = "pending"
    /\ extract' = "resolved"
    /\ docData' = sources
    /\ markdownBuffer' = generateDocsBuffer(sources, DOMAIN files, <<>>)
    /\ gen' = LoopFrom(markdownBuffer', 1)
    /\ readLog' = readLog \cup ReadStarted(gen', markdownBuffer')
    /\ UNCHANGED <<templateFunction, templateCb, sources, files, writes, failedReads,
                   templateCalls, logged, crashed>>
    /\ UNCHANGED <<sortVars, replaceVars, pathVars, transformVars>>

\* An exception inside the async executor of insertMethodDescriptionTable
\* rejects the executor's own promise, which nobody handles; the promise the
\* loop awaits is never settled.  The runtime either warns (and the loop
\* stays suspended for good) or ends the process.
ExecutorRejected ==
    /\ gen' = [gen EXCEPT !.pc = "hung"]
    /\ \E policy \in {"warn", "throw"} : crashed' = (policy = "throw")
    /\ UNCHANGED <<writes, readLog>>

\* readFile of the README completes, lines 266-282, then the loop goes on,
\* lines 245-253: the write is started and the next allow-listed key read.
ReadFileDone ==
    /\ ~crashed
    /\ gen.pc = "awaitRead"
    /\ LET key == markdownBuffer[gen.idx].key
       IN  \E readError \in BOOLEAN :
             IF readError
             THEN /\ failedReads' = failedReads \cup {key}
                  /\ ExecutorRejected
                  /\ UNCHANGED templateCalls
             ELSE /\ templateCalls' = Append(templateCalls, templateFunction)
                  /\ UNCHANGED failedReads
                  /\ IF templateFunction = "unset"
                     THEN ExecutorRejected
                     ELSE \E engine \in Engines :
                            LET modules == ModulesForTemplate(markdownBuffer[gen.idx].modules,
                                                              engine)
                                insertedData == InsertedData(files[key], RenderTemplate(modules))
                            IN  /\ writes' = Append(writes, [dir |-> key, data |-> insertedData,
                                                             state |-> "pending"])
                                /\ gen' = LoopFrom(markdownBuffer, gen.idx + 1)
                                /\ readLog' = readLog \cup ReadStarted(gen', markdownBuffer)
                                /\ UNCHANGED crashed
    /\ UNCHANGED <<templateFunction, templateCb, extract, sources, docData, files,
                   markdownBuffer, logged>>
    /\ UNCHANGED <<sortVars, replaceVars, pathVars, transformVars>>

\* The callback of fs.writeFile, lines 246-251
WriteFileDone ==
    /\ ~crashed
    /\ \E i \in DOMAIN writes :
          /\ writes[i].state = "pending"
          /\ \E error \in BOOLEAN :
                IF error
                THEN /\ writes' = [writes EXCEPT ![i].state = "failed"]
                     /\ logged' = logged \cup {"write"}
                     /\ UNCHANGED files
                ELSE /\ writes' = [writes EXCEPT ![i].state = "written"]
                     /\ files' = [files EXCEPT ![writes[i].dir] = writes[i].data]
                     /\ UNCHANGED logged
    /\ UNCHANGED <<templateFunction, templateCb, extract, sources, docData, markdownBuffer,
                   gen, readLog, failedReads, templateCalls, crashed>>
    /\ UNCHANGED <<sortVars, replaceVars, pathVars, transformVars>>

Next ==
    \/ TemplateLoaded
    \/ ExtractionResolved
    \/ ExtractionFailed
    \/ ReadFileDone
    \/ WriteFileDone

Spec == Init /\ [][Next]_vars

-----------------------------------------------------------------------------
(* Claims about the sort (SortSpec) *)

LowerName(m) == ToLowerCase(m.moduleName)

\* 0: neither tag (a component), 1: adapter, 2: foundation
Tier(m) ==
    IF Includes(LowerName(m), FOUNDATION) THEN 2
    ELSE IF Includes(LowerName(m), ADAPTER) THEN 1
    ELSE 0

Sign(n) == IF n < 0 THEN -1 ELSE IF n > 0 THEN 1 ELSE 0

\* C1: the list handed to the template holds the group's non-empty modules,
\* every untagged module before every adapter, every adapter before every
\* foundation, and the adapters and the foundations each in ascending order
\* of lowercase name, whatever the insertion order.
C1_TiersThenAlphabetical ==
    sortPc = "sorted" =>
        /\ Range(sortResult) = {m \in Range(sortGroup) : NonEmptyRecord(m)}
        /\ \A i, j \in DOMAIN sortResult :
              i < j =>
                  /\ Tier(sortResult[i]) <= Tier(sortResult[j])
                  /\ (Tier(sortResult[i]) = Tier(sortResult[j]) /\ Tier(sortResult[i]) >= 1)
                        => ~StrGreater(LowerName(sortResult[i]), LowerName(sortResult[j]))

\* C9: sortByModuleType is a consistent comparator: opposite signs for
\* swapped arguments, 'compare(a, b) <= 0' transitive, and so a sorted result
\* that is the same under every sorting algorithm.
C9_ConsistentComparator ==
    /\ \A a, b \in Range(sortGroup) :
          a # b => Sign(sortByModuleType(a, b)) = -Sign(sortByModuleType(b, a))
    /\ \A a, b, c \in Range(sortGroup) :
          (sortByModuleType(a, b) <= 0 /\ sortByModuleType(b, c) <= 0)
              => sortByModuleType(a, c) <= 0
    /\ sortPc = "sorted" =>
          \A engine \in Engines : ModulesForTemplate(sortGroup, engine) = sortResult

-----------------------------------------------------------------------------
(* Claims about the Writer (ReplaceSpec) *)

\* C4: a second run of the Writer with the same rendered fragment leaves the
\* README as the first run wrote it.
C4_SecondPassIsNoOp ==
    \A n \in DOMAIN replaced : replaced[n] = replaced[1]

\* The start-sentinel lines, and the END sentinels that end a line
StartLines(t) ==
    {i \in 0..(Len(t) - 2) : AtLineStart(t, i) /\ t[i + 1] = START /\ t[i + 2] = LF}
LineEndingEnds(t) ==
    {j \in 0..(Len(t) - 1) : t[j + 1] = END /\ AtLineEnd(t, j + 1)}
RegionStarts(t) ==
    {i \in StartLines(t) : \E j \in LineEndingEnds(t) : j >= i + 2}
FirstRegionStart(t) ==
    CHOOSE i \in RegionStarts(t) : \A k \in RegionStarts(t) : i <= k
FirstEndAfter(t, i) ==
    CHOOSE j \in LineEndingEnds(t) :
        j >= i + 2 /\ \A k \in LineEndingEnds(t) : k >= i + 2 => j <= k
LastEnd(t) ==
    CHOOSE j \in LineEndingEnds(t) : \A k \in LineEndingEnds(t) : j >= k

\* out is t with the region from position i to the END at position j replaced
\* by the two sentinel lines around some text.
OnlyRegionReplaced(t, out, i, j) ==
    LET before == SubSeq(t, 1, i)
        after == SubSeq(t, j + 2, Len(t))
    IN  /\ Len(out) >= Len(before) + Len(after) + 4
        /\ SubSeq(out, 1, Len(before) + 2) = before \o <<START, LF>>
        /\ SubSeq(out, Len(out) - Len(after) - 1, Len(out)) = <<LF, END>> \o after

HasNoCR(t) == \A i \in DOMAIN t : t[i] # CR

\* C5 as stated: only the region from the first start-sentinel line to the
\* FIRST end sentinel after it is replaced; everything after that end
\* sentinel, later regions included, is unchanged.
C5_FirstRegionOnly ==
    (Len(replaced) >= 1 /\ HasNoCR(readmeMd)) =>
        IF RegionStarts(readmeMd) = {} THEN replaced[1] = readmeMd
        ELSE OnlyRegionReplaced(readmeMd, replaced[1], FirstRegionStart(readmeMd),
                                FirstEndAfter(readmeMd, FirstRegionStart(readmeMd)))

\* C5 as amended: in a README whose line breaks are LF, the region replaced
\* runs from the first start-sentinel line to the LAST end sentinel that ends
\* a line; the text before that start sentinel and after that last end
\* sentinel is unchanged and both sentinel lines are kept, and with a
\* fragment free of '$' the whole region becomes the two sentinel lines
\* around the fragment.  Without such a region the README is unchanged.
C5_FirstStartToLastEnd ==
    (Len(replaced) >= 1 /\ HasNoCR(readmeMd)) =>
        IF RegionStarts(readmeMd) = {} THEN replaced[1] = readmeMd
        ELSE /\ OnlyRegionReplaced(readmeMd, replaced[1], FirstRegionStart(readmeMd),
                                   LastEnd(readmeMd))
             /\ (\A i \in DOMAIN fragment : fragment[i] # "$") =>
                    replaced[1] = SubSeq(readmeMd, 1, FirstRegionStart(readmeMd))
                                    \o <<START, LF>> \o fragment \o <<LF, END>>
                                    \o SubSeq(readmeMd, LastEnd(readmeMd) + 2, Len(readmeMd))

\* A README with two end-sentinel lines after its start-sentinel line has
\* been rewritten.
C5_Witness ==
    /\ Len(replaced) >= 1
    /\ HasNoCR(readmeMd)
    /\ RegionStarts(readmeMd) # {}
    /\ FirstEndAfter(readmeMd, FirstRegionStart(readmeMd)) < LastEnd(readmeMd)
    /\ replaced[1] # readmeMd

-----------------------------------------------------------------------------
(* Claims about directory resolution (PathSpec) *)

ParentDirectory(p) == SubSeq(p, 1, LastIndexOf(p, Slash))

\* The closest directory with a README, walking up parent by parent
RECURSIVE ClosestReadmeDirectory(_, _)
ClosestReadmeDirectory(p, dirs) ==
    IF p = <<>> THEN <<>>
    ELSE IF ReadmeExists(dirs, p) THEN p
    ELSE ClosestReadmeDirectory(ParentDirectory(p), dirs)

\* C8: resolution returns; it starts from the path between the first '/mdc-'
\* and the last separator, retries with the parent directory each time no
\* README is there, and returns the first directory found with a README, or
\* '' once the path is exhausted.
C8_ClosestReadmeOrEmpty ==
    pathPc = "returned" =>
        resolved = ClosestReadmeDirectory(
                      Substring(filePath, IndexOf(filePath, MdcPrefix) + 1,
                                LastIndexOf(filePath, Slash)),
                      readmeDirs)

-----------------------------------------------------------------------------
(* Claims about the Transformer (TransformSpec) *)

Kept(m) == m.documented /\ ~m.isProtected /\ ~m.isStatic

\* C2: for a module that is not a type alias, a method is in the record's
\* methods and a property in its properties exactly when it is documented and
\* neither protected nor static.
C2_MemberKeptIffDocumentedPublic ==
    (transformPc = "done" /\ rawModule.kind # "type alias") =>
        /\ Len(moduleRecord) = 1
        /\ \A m \in Range(rawModule.methods.items) :
              Kept(m) <=> \E out \in Range(moduleRecord[1].methods) :
                              out.methodSignature = m.name \o m.type
        /\ \A out \in Range(moduleRecord[1].methods) :
              \E m \in Range(rawModule.methods.items) :
                  out.methodSignature = m.name \o m.type
        /\ \A m \in Range(rawModule.properties.items) :
              Kept(m) <=> \E out \in Range(moduleRecord[1].properties) : out.name = m.name
        /\ \A out \in Range(moduleRecord[1].properties) :
              \E m \in Range(rawModule.properties.items) : out.name = m.name

\* A class with a kept method, a dropped static method and a dropped
\* property has been transformed.
C2_Witness ==
    /\ transformPc = "done"
    /\ rawModule.kind = "class"
    /\ \E m \in Range(rawModule.methods.items) : Kept(m)
    /\ \E m \in Range(rawModule.methods.items) : m.documented /\ m.isStatic /\ ~m.isProtected
    /\ \E m \in Range(rawModule.properties.items) : m.documented /\ m.isProtected
    /\ Len(moduleRecord[1].methods) = 1
    /\ Len(moduleRecord[1].properties) = 0

-----------------------------------------------------------------------------
(* Claims about the run (Spec) *)

BufferKeys == {markdownBuffer[i].key : i \in DOMAIN markdownBuffer}
WriteDirectories == {writes[i].dir : i \in DOMAIN writes}
ContainsAllowListedName(key) == \E allowed \in allowList : Includes(key, allowed)

\* C3 as stated: a README is read and written only for a buffer key that is
\* the allow-listed directory itself, and for that key it is.
C3_OnlyTheAllowListedDirectory ==
    /\ \A key \in readLog \cup WriteDirectories : key \in allowList
    /\ gen.pc = "done" =>
          \A key \in BufferKeys \cap allowList : key \in readLog /\ key \in WriteDirectories

\* C3 as amended: a README is read and written only for a buffer key that
\* CONTAINS the allow-listed name 'mdc-drawer' (so also for mdc-drawer/util),
\* and for every such key it is; for every other key, the empty key included,
\* nothing is read and nothing is written.
C3_OnlyKeysContainingAllowListedName ==
    /\ \A key \in readLog \cup WriteDirectories :
          key \in BufferKeys /\ ContainsAllowListedName(key)
    /\ gen.pc = "done" =>
          \A key \in BufferKeys :
              ContainsAllowListedName(key) => key \in readLog /\ key \in WriteDirectories

\* The loop is through a buffer that holds the empty key and a key that
\* contains the allow-listed name without being it, and wrote only the latter.
C3_Witness ==
    /\ gen.pc = "done"
    /\ BufferKeys = {<<>>, MdcDrawerUtil}
    /\ readLog = {MdcDrawerUtil}
    /\ WriteDirectories = {MdcDrawerUtil}

\* C6: when reading or writing a README fails, the failure is logged and the
\* run goes on: the function is not left suspended, and when it is through,
\* every allow-listed key of the buffer has had its write started.
C6_FailureLoggedAndRunContinues ==
    /\ (\E i \in DOMAIN writes : writes[i].state = "failed") => "write" \in logged
    /\ failedReads # {} =>
          /\ "read" \in logged
          /\ gen.pc \in {"awaitRead", "done"}
          /\ ~crashed
    /\ gen.pc = "done" =>
          \A key \in BufferKeys : AllowListed(key) => key \in WriteDirectories

\* C7: after a failed extraction the error is logged, generateDocs has not
\* run, the buffer is empty, and no README is read or written.
C7_ExtractionFailureHalts ==
    extract = "failed" =>
        /\ "extraction" \in logged
        /\ docData = <<>>
        /\ markdownBuffer = <<>>
        /\ gen.pc = "notStarted"
        /\ readLog = {}
        /\ writes = <<>>
        /\ \A d \in DOMAIN files : files[d] = InitialReadme

\* The extraction failed in a run whose template is loaded and whose sources
\* hold a documented module of the allow-listed directory.
C7_Witness ==
    /\ extract = "failed"
    /\ templateFunction = "compiled"
    /\ MdcDrawer \in DOMAIN files
    /\ \E i \in DOMAIN sources :
          /\ sources[i].kind = "class"
          /\ sources[i].methods.present
          /\ sources[i].fileName = FilePathOf(<<MdcDrawer>>, PlainFile)

\* C10: whenever insertMethodDescriptionTable invokes templateFunction, the
\* template-load callback has assigned it.
C10_TemplateSetBeforeRender ==
    \A i \in DOMAIN templateCalls : templateCalls[i] = "compiled"

====
